---- MODULE Spec2Model ----
(***************************************************************************)
(* Model of YellowTeeth_v3.ino: the controller of the tooth brushing       *)
(* exhibit.  One call of loop() is one atomic step; every state of the     *)
(* model is the start-up state left by setup() or the state at the end of  *)
(* a loop() call.  Times are in milliseconds, temperatures in degrees C.   *)
(* All millis() calls of one loop() call return the same value.  The       *)
(* Serial diagnostics (LastDebugMsg, lines 167-186) only print and are not *)
(* modelled.                                                               *)
(***************************************************************************)
EXTENDS Integers, Sequences, FiniteSets, TLC

\* ---------------------------------------------------------------- constants
NumHeaterPins == 3
StandByTarget == 25
HeatTarget == 33
TriggerThreshold == 100
TriggerTimeframe == 3000
TriggerFrequency == 2
TempatureReadDelay == 1000
LowerBound == -20
DeviationBound == 10
HeatOnDuration == 15000

\* ------------------------------------------------------------------- bounds
\* Width of unsigned long in the model (the AVR type has 32 bits).
ULongBits == 16
Wrap == 2 ^ ULongBits
\* No loop() call is modelled after the clock has passed MaxTime; calls
\* PollStep apart are modelled until the clock reaches MaxFine and again
\* after an idle gap.
MaxFine == 3000
MaxTime == 18000
\* TempSanityCheck is exercised on the readings from TempMargin below
\* LowerBound to TempMargin above HeatTarget.
TempMargin == 15

\* Time that passes between two loop() calls: none, PollStep or IdleGap.
PollStep == TempatureReadDelay
IdleGap == HeatOnDuration
Deltas == {0, PollStep, IdleGap}
\* analogRead(TriggerPin): below, at and above TriggerThreshold.
Samples == {50, 100, 150}
\* getTempC() of a probe: disconnected (-127), below both targets, between.
Temps == {-127, 24, 30}
TempRange == (LowerBound - TempMargin) .. (HeatTarget + TempMargin)

\* Values sizeof(InputArray)/sizeof(unsigned long) takes in PushDown, where
\* InputArray is a pointer: 2/4 on AVR, 4/4 on 32-bit ARM, 8/4 on LLP64.
\* With size 0 PushDown writes the word below SpikeHistory.  In declaration
\* order or its reverse that word holds SpikeUp (cleared on the next line)
\* and probe address bytes, or LastDebugMsg; the write is recorded in
\* OutOfBounds, and the probes may return any reading anyway.
ArraySizes == {0, 1, 2}

HeaterIdx == 0 .. NumHeaterPins - 1
HistIdx == 0 .. TriggerFrequency - 1
\* SpikeHistory together with the word below it.
MemWindow == -1 .. TriggerFrequency - 1
NoTrigger == -1

VARIABLES
  clock,                 \* value millis() returned in the latest loop() call
  ArraySize,             \* element count PushDown computes in this build
  SpikeUp,
  SpikeHistory,
  HeatEnableTime,
  LastTempatureReadTime,
  TargetTempature,
  HeaterEnable,
  LeftTempature,
  RightTempature,
  PinLevel,              \* output level of HeaterPin[i], TRUE = HIGH
  LedLevel,              \* output level of LED_BUILTIN, TRUE = HIGH
  Triggered,             \* loop()'s local: what InputCheck() returned
  SpikeDone,             \* the latest InputCheck() call completed a spike
  SpikeTimes,            \* completion times of the latest spikes, oldest first
  LastTrigger,           \* clock of the latest call with Triggered, or NoTrigger
  SanityResult,          \* latest TempSanityCheck result, "none" before any
  TempRead,              \* the latest loop() call read the probes
  Path,                  \* "setup", or how the latest loop() call ended
  OutOfBounds,           \* PushDown has written outside SpikeHistory
  TrueTime,              \* time since start-up; clock is TrueTime modulo Wrap
  LastSample,            \* what analogRead returned in the latest call
  Validated              \* some pair of readings has been accepted

vars == <<clock, ArraySize, SpikeUp, SpikeHistory,
          HeatEnableTime, LastTempatureReadTime, TargetTempature, HeaterEnable,
          LeftTempature, RightTempature, PinLevel, LedLevel, Triggered,
          SpikeDone, SpikeTimes, LastTrigger, SanityResult, TempRead, Path,
          OutOfBounds, TrueTime, LastSample, Validated>>

\* ------------------------------------------------- unsigned long arithmetic
Add(a, b) == (a + b) % Wrap
\* Subtraction in a signed type wide enough not to wrap.
Sub_Signed(a, b) == a - b

Sub(a, b) == (a - b) % Wrap

\* Arduino's abs() macro.
abs(x) == IF x > 0 THEN x ELSE -x

\* ------------------------------------------------------------------ helpers
PushDown(InputArray, InputValue, size) ==
  LET shifted == [i \in MemWindow |->
                    IF i >= 0 /\ i < size - 1 THEN InputArray[i + 1]
                                               ELSE InputArray[i]]
  IN  [shifted EXCEPT ![size - 1] = InputValue]

\* TempSanityCheck with the lower bound tested on the first reading only.
TempSanityCheck_FirstOnly(TempValue1, TempValue2) ==
  IF TempValue1 < LowerBound THEN FALSE
  ELSE IF abs(TempValue1 - TempValue2) > DeviationBound THEN FALSE
  ELSE TRUE

TempSanityCheck(TempValue1, TempValue2) ==
  IF (TempValue1 < LowerBound) \/ (TempValue2 < LowerBound) THEN FALSE
  ELSE IF abs(TempValue1 - TempValue2) > DeviationBound THEN FALSE
  ELSE TRUE

\* InputCheck() with the falling edge taken at the threshold itself.
InputCheck_EqualBelow(InputValue, now, up, mem, size) ==
  LET up1 == IF (~up) /\ (InputValue > TriggerThreshold) THEN TRUE ELSE up
  IN  IF up1 /\ (InputValue <= TriggerThreshold)
      THEN LET pushed == PushDown(mem, now, size)
           IN  [ret |-> Sub(pushed[TriggerFrequency - 1], pushed[0])
                          < TriggerTimeframe,
                up |-> FALSE, mem |-> pushed, done |-> TRUE]
      ELSE [ret |-> FALSE, up |-> up1, mem |-> mem, done |-> FALSE]

\* InputCheck() without line 210: SpikeUp stays set after a completed spike.
InputCheck_NoClear(InputValue, now, up, mem, size) ==
  LET up1 == IF (~up) /\ (InputValue > TriggerThreshold) THEN TRUE ELSE up
  IN  IF up1 /\ (InputValue < TriggerThreshold)
      THEN LET pushed == PushDown(mem, now, size)
           IN  [ret |-> Sub(pushed[TriggerFrequency - 1], pushed[0])
                          < TriggerTimeframe,
                up |-> up1, mem |-> pushed, done |-> TRUE]
      ELSE [ret |-> FALSE, up |-> up1, mem |-> mem, done |-> FALSE]

\* InputCheck() on the sample InputValue read at time now; mem is SpikeHistory
\* with the word below it, up is SpikeUp.
InputCheck(InputValue, now, up, mem, size) ==
  LET up1 == IF (~up) /\ (InputValue > TriggerThreshold) THEN TRUE ELSE up
  IN  IF up1 /\ (InputValue < TriggerThreshold)
      THEN LET pushed == PushDown(mem, now, size)
           IN  [ret |-> Sub(pushed[TriggerFrequency - 1], pushed[0])
                          < TriggerTimeframe,
                up |-> FALSE, mem |-> pushed, done |-> TRUE]
      ELSE [ret |-> FALSE, up |-> up1, mem |-> mem, done |-> FALSE]

\* The derivation with the center zone following either side.
DeriveHeaterEnable_Either(left, right, target) ==
  LET e0 == left < target
      e1 == right < target
  IN  [i \in HeaterIdx |-> IF i = 0 THEN e0 ELSE IF i = 1 THEN e1
                                             ELSE e0 \/ e1]

\* Lines 140-154 of loop(): the enable vector from the readings and target.
DeriveHeaterEnable(left, right, target) ==
  LET e0 == left < target
      e1 == right < target
  IN  [i \in HeaterIdx |-> IF i = 0 THEN e0 ELSE IF i = 1 THEN e1
                                             ELSE e0 /\ e1]

\* The target computed before line 128 has stored this call's trigger.
TargetFor_Stale(now, enableTime) ==
  IF now < Add(HeatEnableTime, HeatOnDuration) THEN HeatTarget
                                               ELSE StandByTarget

\* The target from the elapsed time, subtracted modulo Wrap.
TargetFor_WrapSafe(now, enableTime) ==
  IF Sub(now, enableTime) < HeatOnDuration THEN HeatTarget ELSE StandByTarget

\* The target of lines 131-135.
TargetFor(now, enableTime) ==
  IF now < Add(enableTime, HeatOnDuration) THEN HeatTarget ELSE StandByTarget

\* The latest TriggerFrequency entries of a sequence of completion times.
LatestSpikes(s) ==
  IF Len(s) > TriggerFrequency
  THEN SubSeq(s, Len(s) - TriggerFrequency + 1, Len(s)) ELSE s

\* -------------------------------------------------------------------- setup
Init ==
  /\ clock = 0
  /\ ArraySize \in ArraySizes
  /\ SpikeUp = FALSE
  /\ SpikeHistory = [i \in HistIdx |-> 0]
  /\ HeatEnableTime = 0
  /\ LastTempatureReadTime = 0
  /\ TargetTempature = 0
  /\ HeaterEnable = [i \in HeaterIdx |-> FALSE]
  /\ LeftTempature = 0
  /\ RightTempature = 0
  /\ PinLevel = [i \in HeaterIdx |-> FALSE]
  /\ LedLevel = FALSE
  /\ Triggered = FALSE
  /\ SpikeDone = FALSE
  /\ SpikeTimes = <<>>
  /\ LastTrigger = NoTrigger
  /\ SanityResult = "none"
  /\ TempRead = FALSE
  /\ Path = "setup"
  /\ OutOfBounds = FALSE
  /\ TrueTime = 0
  /\ LastSample = 0
  /\ Validated = FALSE

\* The gaps between loop() calls the model explores.
MayPass(d) ==
  /\ TrueTime + d <= MaxTime
  /\ d = PollStep => (TrueTime + d <= MaxFine \/ TrueTime >= IdleGap)

\* The read taken as soon as TempatureReadDelay has passed.
ReadDue_AtDelay(d) ==
  Add(clock, d) >= Add(LastTempatureReadTime, TempatureReadDelay)

\* Line 105: more than TempatureReadDelay has passed since the last read.
ReadDue(d) ==
  Add(clock, d) > Add(LastTempatureReadTime, TempatureReadDelay)

\* SpikeHistory as PushDown's pointer sees it, with the word below it.
SpikeMem == [i \in MemWindow |-> IF i < 0 THEN 0 ELSE SpikeHistory[i]]

\* The enable vector frozen at its previous value by a rejected read.
ClearedEnable_Keep == HeaterEnable

\* Lines 120-122 of loop(): the enable vector after a rejected read.
ClearedEnable == [i \in HeaterIdx |-> FALSE]

\* --------------------------------------------------------------------- loop
\* One call of loop(): d is the time since the previous call, sample the
\* analogRead value, left and right what the probes return if they are read.
loop(d, sample, left, right) ==
  LET now == Add(clock, d)
      ic == InputCheck(sample, now, SpikeUp, SpikeMem, ArraySize)
      readDue == ReadDue(d)
      left1 == IF readDue THEN left ELSE LeftTempature
      right1 == IF readDue THEN right ELSE RightTempature
      sane == TempSanityCheck(left1, right1)
      het2 == IF ic.ret THEN now ELSE HeatEnableTime
      target == TargetFor(now, het2)
      enable == DeriveHeaterEnable(left1, right1, target)
  IN  /\ clock' = now
      /\ TrueTime' = TrueTime + d
      /\ LastSample' = sample
      /\ Validated' = (Validated \/ (readDue /\ sane))
      /\ UNCHANGED ArraySize
      /\ SpikeUp' = ic.up
      /\ SpikeHistory' = [i \in HistIdx |-> ic.mem[i]]
      /\ OutOfBounds' = (OutOfBounds \/ (ic.done /\ ArraySize - 1 \notin HistIdx))
      /\ Triggered' = ic.ret
      /\ SpikeDone' = ic.done
      /\ SpikeTimes' = IF ic.done
                       THEN LatestSpikes(Append(SpikeTimes, TrueTime + d))
                       ELSE SpikeTimes
      /\ LastTrigger' = IF ic.ret THEN now ELSE LastTrigger
      /\ LastTempatureReadTime' = IF readDue THEN now
                                              ELSE LastTempatureReadTime
      /\ LeftTempature' = left1
      /\ RightTempature' = right1
      /\ TempRead' = readDue
      /\ SanityResult' = IF readDue
                         THEN (IF sane THEN "accepted" ELSE "rejected")
                         ELSE SanityResult
      /\ IF readDue /\ ~sane
         THEN \* lines 115-124: clear the flags and return
              /\ HeaterEnable' = ClearedEnable
              /\ LedLevel' = FALSE
              /\ Path' = "rejected"
              /\ UNCHANGED <<HeatEnableTime, TargetTempature, PinLevel>>
         ELSE /\ HeatEnableTime' = het2
              /\ TargetTempature' = target
              /\ HeaterEnable' = enable
              /\ PinLevel' = enable
              /\ LedLevel' = (\E i \in HeaterIdx : enable[i])
              /\ Path' = "full"

\* A loop() call that reads the probes.
LoopRead ==
  \E d \in Deltas, sample \in Samples, left \in Temps, right \in Temps :
    MayPass(d) /\ ReadDue(d) /\ loop(d, sample, left, right)

\* A loop() call between two reads.
LoopNoRead ==
  \E d \in Deltas, sample \in Samples :
    MayPass(d) /\ ~ReadDue(d) /\ loop(d, sample, LeftTempature, RightTempature)

Next == LoopRead \/ LoopNoRead

Spec == Init /\ [][Next]_vars

\* ------------------------------------------------ TempSanityCheck on its own
\* TempSanityCheck applied to an arbitrary pair of readings, as lines 111-115
\* apply it to what the probes returned on the first read.
SanityProbe(a, b) ==
  /\ SanityResult = "none"
  /\ LeftTempature' = a
  /\ RightTempature' = b
  /\ SanityResult' = IF TempSanityCheck(a, b) THEN "accepted" ELSE "rejected"
  /\ Validated' = TempSanityCheck(a, b)
  /\ UNCHANGED <<clock, ArraySize, SpikeUp, SpikeHistory, HeatEnableTime,
                 LastTempatureReadTime, TargetTempature, HeaterEnable,
                 PinLevel, LedLevel, Triggered, SpikeDone, SpikeTimes,
                 LastTrigger, TempRead, Path, OutOfBounds, TrueTime,
                 LastSample>>

NextSanity == \E a \in TempRange, b \in TempRange : SanityProbe(a, b)

SpecSanity == Init /\ [][NextSanity]_vars

\* ------------------------------------------------ running up to a clock wrap
\* The exhibit left alone from start-up until NearWrap, then polled every
\* PollStep while millis() wraps, until MaxFine after the wrap.
NearWrap == Wrap - 2 * PollStep
WrapDeltas == {0, PollStep, NearWrap}

WrapPass(d) ==
  /\ TrueTime + d <= Wrap + MaxFine
  /\ d = PollStep => TrueTime >= NearWrap

WrapRead ==
  \E d \in WrapDeltas, sample \in Samples, left \in Temps, right \in Temps :
    WrapPass(d) /\ ReadDue(d) /\ loop(d, sample, left, right)

WrapNoRead ==
  \E d \in WrapDeltas, sample \in Samples :
    WrapPass(d) /\ ~ReadDue(d) /\ loop(d, sample, LeftTempature, RightTempature)

NextWrap == WrapRead \/ WrapNoRead

SpecWrap == Init /\ [][NextWrap]_vars

\* =================================================================== claims

\* C1: InputCheck() returns true on a call if and only if that call completes
\* a spike, at least TriggerFrequency spikes have completed so far, and the
\* completion times of the latest TriggerFrequency spikes span strictly less
\* than TriggerTimeframe.
C1_TriggerIffSpikesInTimeframe ==
  Triggered <=>
    /\ SpikeDone
    /\ Len(SpikeTimes) = TriggerFrequency
    /\ SpikeTimes[TriggerFrequency] - SpikeTimes[1] < TriggerTimeframe

\* C2: at the end of every loop() call for which the latest TempSanityCheck
\* result was a rejection, no heater output pin is HIGH.
C2_NoHeatWhileFaulty ==
  SanityResult = "rejected" => \A i \in HeaterIdx : ~PinLevel[i]

\* C3: in every loop() call in which the latest TempSanityCheck result was a
\* rejection, the derivation of HeaterEnable from the stored readings and
\* the target is not executed.
C3_RejectedNeverDrives ==
  SanityResult = "rejected" => Path # "full"

\* C4: after a trigger at time t and with no further trigger, every
\* recomputation of TargetTempature at a time now yields HeatTarget when
\* now - t < HeatOnDuration and StandByTarget otherwise.
C4_HoldWindow ==
  (LastTrigger # NoTrigger /\ Path = "full") =>
    TargetTempature = IF clock - LastTrigger < HeatOnDuration
                      THEN HeatTarget ELSE StandByTarget

\* C5: in every loop() call in which InputCheck() returns true,
\* HeatEnableTime is the current time when the call returns, whatever the
\* outcome of the sanity check in that call.
C5_TriggerRestartsHold ==
  Triggered => HeatEnableTime = clock

\* C6: at the end of every loop() call and at start-up, the center zone
\* HeaterEnable[2] is enabled if and only if both side zones HeaterEnable[0]
\* and HeaterEnable[1] are.
C6_CenterIffBothSides ==
  HeaterEnable[2] <=> (HeaterEnable[0] /\ HeaterEnable[1])

\* A loop() call has derived the vector with exactly one side zone enabled.
C6_Witness ==
  /\ Path = "full"
  /\ HeaterEnable[0] /\ ~HeaterEnable[1] /\ ~HeaterEnable[2]

\* C7: TempSanityCheck(a, b) accepts if and only if a >= LowerBound and
\* b >= LowerBound and |a - b| <= DeviationBound; it gives the same answer
\* for (b, a), and rejects whenever either reading is below LowerBound.
C7_SanityCharacterised ==
  SanityResult # "none" =>
    /\ (SanityResult = "accepted") <=>
         /\ LeftTempature >= LowerBound
         /\ RightTempature >= LowerBound
         /\ LeftTempature - RightTempature <= DeviationBound
         /\ RightTempature - LeftTempature <= DeviationBound
    /\ (SanityResult = "accepted") =
         TempSanityCheck(RightTempature, LeftTempature)

\* The pair (22, 35) of in-range readings was rejected for its deviation.
C7_Witness ==
  /\ SanityResult = "rejected"
  /\ LeftTempature = 22
  /\ RightTempature = 35

\* C8: as long as no trigger has occurred, every recomputation of
\* TargetTempature in loop() yields StandByTarget.
C8_StartsInStandby ==
  (LastTrigger = NoTrigger /\ Path = "full") =>
    TargetTempature = StandByTarget

\* C9: InputCheck() returns false as long as fewer than TriggerFrequency
\* spikes have completed since start-up, the call that completes the first
\* spike included.
C9_NoTriggerBeforeEnoughSpikes ==
  Len(SpikeTimes) < TriggerFrequency => ~Triggered

\* C10: at the end of every loop() call LED_BUILTIN is HIGH if and only if
\* at least one heater output pin is HIGH.
C10_LedMirrorsHeaters ==
  LedLevel <=> (\E i \in HeaterIdx : PinLevel[i])

\* C11: PushDown(SpikeHistory, t) is a FIFO of TriggerFrequency entries for
\* the element count it computes: after a completed spike the newest entry
\* is t, every other entry is the previous next one, and nothing outside
\* SpikeHistory has been written.
C11_PushDownIsFifo ==
  [][SpikeDone' =>
       /\ SpikeHistory'[TriggerFrequency - 1] = clock'
       /\ \A i \in 0 .. TriggerFrequency - 2 :
            SpikeHistory'[i] = SpikeHistory[i + 1]
       /\ ~OutOfBounds']_vars

\* C12: at the end of every loop() call each heater pin is HIGH exactly
\* when its HeaterEnable flag is true.
C12_PinsFollowEnable ==
  Path # "setup" => \A i \in HeaterIdx : PinLevel[i] = HeaterEnable[i]

\* C13: a loop() call whose read is rejected returns with all three
\* HeaterEnable flags false and with HeatEnableTime and TargetTempature as
\* they were when InputCheck() returned, which does not touch them.
C13_RejectionFrame ==
  [][Path' = "rejected" =>
       /\ \A i \in HeaterIdx : ~HeaterEnable'[i]
       /\ HeatEnableTime' = HeatEnableTime
       /\ TargetTempature' = TargetTempature]_vars

\* A read was rejected while a heater was enabled and the hold timer set.
C13_Witness ==
  /\ Path = "rejected"
  /\ HeatEnableTime > 0
  /\ \E i \in HeaterIdx : PinLevel[i]

\* C14: a loop() call in which InputCheck() returned true and that
\* recomputes the target ends with TargetTempature = HeatTarget, as long as
\* the clock plus HeatOnDuration does not wrap.
C14_TriggerSeenSameTick ==
  (Triggered /\ Path = "full" /\ clock + HeatOnDuration < Wrap) =>
    TargetTempature = HeatTarget

\* A trigger after the start-up hold has run out put the target to heat.
C14_Witness ==
  /\ Triggered
  /\ Path = "full"
  /\ clock >= HeatOnDuration
  /\ TargetTempature = HeatTarget

\* C15: InputCheck() with a sample equal to TriggerThreshold gives the same
\* return value, SpikeUp and SpikeHistory as with a sample strictly below
\* TriggerThreshold in the same detector state.
C15_ThresholdAsBelow ==
  [][LastSample' = TriggerThreshold =>
       \A s \in {x \in Samples : x < TriggerThreshold} :
         LET below == InputCheck(s, clock', SpikeUp, SpikeMem, ArraySize)
         IN  /\ Triggered' = below.ret
             /\ SpikeUp' = below.up
             /\ SpikeHistory' = [i \in HistIdx |-> below.mem[i]]]_vars

\* C15 amended: InputCheck() with a sample equal to TriggerThreshold returns
\* false, completes no spike and leaves SpikeUp and SpikeHistory unchanged.
C15_ThresholdIsNeither ==
  [][LastSample' = TriggerThreshold =>
       /\ ~Triggered'
       /\ ~SpikeDone'
       /\ SpikeUp' = SpikeUp
       /\ SpikeHistory' = SpikeHistory]_vars

\* A sample equal to the threshold arrived during a spike and left it open.
C15_Witness ==
  /\ LastSample = TriggerThreshold
  /\ SpikeUp

\* C16: InputCheck() returns true, or pushes the window, only on a call
\* that started with SpikeUp set and whose sample is strictly below
\* TriggerThreshold; SpikeUp is false afterwards, so the previous call did
\* not return true or push.
C16_OnlyFallingEdgeFires ==
  [][(Triggered' \/ SpikeDone') =>
       /\ SpikeDone'
       /\ LastSample' < TriggerThreshold
       /\ SpikeUp
       /\ ~SpikeUp'
       /\ ~Triggered
       /\ ~SpikeDone]_vars

\* InputCheck() returned true on a sample below the threshold.
C16_Witness ==
  /\ Triggered
  /\ LastSample < TriggerThreshold
  /\ ~SpikeUp

\* C17: absent clock wrap, a loop() call reads the probes only at a clock
\* value more than TempatureReadDelay after the previous read, never at a
\* clock value <= LastTempatureReadTime + TempatureReadDelay, and every
\* call polls the trigger input.
C17_ReadsRateLimited ==
  [][/\ TempRead' => /\ clock' > LastTempatureReadTime + TempatureReadDelay
                     /\ LastTempatureReadTime' = clock'
     /\ clock' <= LastTempatureReadTime + TempatureReadDelay =>
          /\ ~TempRead'
          /\ LastTempatureReadTime' = LastTempatureReadTime
          /\ LeftTempature' = LeftTempature
          /\ RightTempature' = RightTempature
     /\ LastSample' \in Samples]_vars

\* A second read: a run that reaches IdleGap + 2 * PollStep has read at
\* 2 * PollStep or at IdleGap, the first clock values at which a read is due.
C17_Witness ==
  /\ TempRead
  /\ clock = IdleGap + 2 * PollStep

\* C18: a trigger at time t with t + HeatOnDuration >= Wrap leaves the
\* target at StandByTarget on every recomputation before the clock wraps,
\* less than HeatOnDuration after the trigger.
C18_HoldNotWrapSafe ==
  (/\ Path = "full"
   /\ LastTrigger = HeatEnableTime
   /\ HeatEnableTime + HeatOnDuration >= Wrap
   /\ clock >= HeatEnableTime
   /\ clock - HeatEnableTime < HeatOnDuration) =>
    TargetTempature = StandByTarget

\* The trigger of this very call, near the wrap, left the target at standby.
C18_Witness ==
  /\ Triggered
  /\ Path = "full"
  /\ HeatEnableTime = clock
  /\ clock + HeatOnDuration >= Wrap
  /\ TargetTempature = StandByTarget

C20_NoHeatBeforeValidated ==
  ~Validated => \A i \in HeaterIdx : ~PinLevel[i]

====
